---- MODULE Spec2Model ----
(***************************************************************************)
(* SwiftAssist support chat (src/src/App.tsx): the conversation controller *)
(* (message list, input text, pending flag), the two remote calls (support *)
(* and feedback) and the response normalizer with its synthesized replies. *)
(*                                                                         *)
(* JavaScript values are tagged records [k |-> kind, v |-> payload].       *)
(* Numbers are stored in units of 10^-5 (0.95 is 95000); Math.random() is  *)
(* stored in units of 10^-3 (0 .. 999).  Date.now() is the variable clock. *)
(***************************************************************************)
EXTENDS Integers, Sequences, FiniteSets, TLC

VARIABLES messages, inputText, isTyping, clock, supportCalls, feedbackCalls,
          fbIssued, last

vars == <<messages, inputText, isTyping, clock, supportCalls, feedbackCalls,
          fbIssued, last>>

(***************************************************************************)
(* Bounds of the model.                                                    *)
(***************************************************************************)
MaxSends == 2
MaxFeedback == 2
MaxClock == 1

(***************************************************************************)
(* JavaScript values and the language operations the code applies to them. *)
(***************************************************************************)
Undefined == [k |-> "undefined"]
Null == [k |-> "null"]
Bool(b) == [k |-> "boolean", v |-> b]
Num(n) == [k |-> "number", v |-> n]
Str(s) == [k |-> "string", v |-> s]
Arr(s) == [k |-> "array", v |-> s]
Obj(f) == [k |-> "object", v |-> f]
EmptyObject == Obj([f \in {} |-> Undefined])

\* ToBoolean: what `!x`, `x || y` and `x && y` test.
Truthy(x) ==
  CASE x.k \in {"undefined", "null"} -> FALSE
    [] x.k = "boolean" -> x.v
    [] x.k = "number" -> x.v # 0
    [] x.k = "string" -> x.v # ""
    [] OTHER -> TRUE

\* x.f for a value that is neither null nor undefined, f one of the field
\* names the code reads (no primitive and no array has such a property).
Get(x, f) == IF x.k = "object" /\ f \in DOMAIN x.v THEN x.v[f] ELSE Undefined

\* a || b
Or(a, b) == IF Truthy(a) THEN a ELSE b

\* typeof x
TypeOf(x) ==
  CASE x.k \in {"object", "array", "null"} -> "object"
    [] OTHER -> x.k

(***************************************************************************)
(* Strings: toLowerCase, includes, trim, number formatting.                *)
(***************************************************************************)
UpperCase == "ABCDEFGHIJKLMNOPQRSTUVWXYZ"
LowerCase == "abcdefghijklmnopqrstuvwxyz"
Digits == "0123456789"
WhiteSpace == {" ", "\t", "\n", "\r"}

CharAt(s, i) == SubSeq(s, i, i)

LowerMap ==
  [c \in { CharAt(UpperCase, i) : i \in 1..Len(UpperCase) } |->
     CharAt(LowerCase, CHOOSE i \in 1..Len(UpperCase) : CharAt(UpperCase, i) = c)]

LowerChar(c) == IF c \in DOMAIN LowerMap THEN LowerMap[c] ELSE c

RECURSIVE LowerFrom(_, _)
LowerFrom(s, i) ==
  IF i > Len(s) THEN "" ELSE LowerChar(CharAt(s, i)) \o LowerFrom(s, i + 1)

\* s.toLowerCase()
ToLowerCase(s) == LowerFrom(s, 1)

\* s.includes(sub)
Includes(s, sub) ==
  \E i \in 1..(Len(s) - Len(sub) + 1) : SubSeq(s, i, i + Len(sub) - 1) = sub

RECURSIVE TrimStart(_)
TrimStart(s) ==
  IF s # "" /\ CharAt(s, 1) \in WhiteSpace
  THEN TrimStart(SubSeq(s, 2, Len(s)))
  ELSE s

RECURSIVE TrimEnd(_)
TrimEnd(s) ==
  IF s # "" /\ CharAt(s, Len(s)) \in WhiteSpace
  THEN TrimEnd(SubSeq(s, 1, Len(s) - 1))
  ELSE s

\* s.trim()
Trim(s) == TrimEnd(TrimStart(s))

\* `${n}` for a non-negative integer n
RECURSIVE IntToString(_)
IntToString(n) ==
  IF n < 10 THEN CharAt(Digits, n + 1)
  ELSE IntToString(n \div 10) \o CharAt(Digits, (n % 10) + 1)

\* x.toFixed(1) for a number x >= 0 held in units of 10^-5
ToFixed1(x) ==
  LET tenths == (x + 5000) \div 10000
  IN IntToString(tenths \div 10) \o "." \o IntToString(tenths % 10)

(***************************************************************************)
(* Program constants.                                                      *)
(***************************************************************************)
AGENT_IDS == [support |-> "68e2b77f615699d53b624bca",
              feedback |-> "68e2b78a1d634c83109811d8"]

HELP_TOPICS == <<"Orders", "Shipping", "Returns">>

\* `topics` of createMockSupportResponse
MockTopics == <<"Orders", "Shipping", "Returns", "Products", "Warranty", "Account">>

OrderMessage == "I've received your question about orders. Our ordering system is designed to be simple and secure. You can track your order status, modify shipping details, or check estimated delivery times from your account dashboard. For specific order inquiries, please provide your order number."
ShippingMessage == "Great question about shipping! We offer various shipping options including standard, express, and overnight delivery. Most orders ship within 1-2 business days. You can track your shipment in real-time with the tracking number provided in your confirmation email."
ReturnMessage == "I understand you have a question about returns. Our return policy allows returns within 30 days of purchase. Items should be in original condition. You can initiate a return from your account or contact customer service for assistance with the process."
GeneralMessage == "Thank you for your question! I'm here to help you with any inquiries about our products and services. Based on your question, I'll provide you with helpful information and suggestions for your next steps."

DefaultText == "I'm here to help! Let me know what you need assistance with."
ApologyText == "I apologize, but I'm having trouble processing your request right now. Please try asking again or select a help topic."

(***************************************************************************)
(* Synthesized replies.  `draws` is the sequence of the values the calls   *)
(* of Math.random() return, in call order.                                 *)
(***************************************************************************)
\* topics[Math.floor(Math.random() * topics.length)]
RandomTopic(r) == MockTopics[((r * Len(MockTopics)) \div 1000) + 1]

\* lines 84-86: the three keyword flags of a query
KeywordFlags(query) ==
  LET lower == ToLowerCase(query)
  IN [isOrderRelated |-> Includes(lower, "order"),
      isShippingRelated |-> Includes(lower, "ship"),
      isReturnRelated |-> Includes(lower, "return")]

\* lines 94-104
MockMessage(flags) ==
  IF flags.isOrderRelated THEN OrderMessage
  ELSE IF flags.isShippingRelated THEN ShippingMessage
  ELSE IF flags.isReturnRelated THEN ReturnMessage
  ELSE GeneralMessage

\* MockQueryType with the shipping test placed before the order test
MockQueryTypeShipFirst(flags) ==
  IF flags.isShippingRelated THEN "shipping"
  ELSE IF flags.isOrderRelated THEN "order"
  ELSE IF flags.isReturnRelated THEN "return"
  ELSE "general"

\* line 117
MockQueryType(flags) ==
  IF flags.isOrderRelated THEN "order"
  ELSE IF flags.isShippingRelated THEN "shipping"
  ELSE IF flags.isReturnRelated THEN "return"
  ELSE "general"

createMockSupportResponse(query, draws) ==
  LET flags == KeywordFlags(query) IN
  Obj([response |->
         Obj([message |-> Str(MockMessage(flags)),
              suggested_topics |-> Arr(<<Str(RandomTopic(draws[1])),
                                         Str(RandomTopic(draws[2])),
                                         Str(RandomTopic(draws[3]))>>),
              confidence_score |-> Num(80000 + draws[4] * 19)]),
       metadata |->
         Obj([query_type |-> Str(MockQueryType(flags)),
              processing_time |-> Str(ToFixed1(50000 + draws[5] * 150) \o "s")])])

\* createMockFeedbackResponse with the processing time of the support reply
createMockFeedbackResponseSlow(draws, now) ==
  Obj([response |->
         Obj([acknowledgment |-> Str("Thank you for your feedback!"),
              feedback_processed |-> Bool(TRUE),
              feedback_type |-> Str("positive")]),
       metadata |->
         Obj([processing_time |-> Str(ToFixed1(50000 + draws[1] * 150) \o "s"),
              response_id |-> Str("resp-" \o IntToString(now))])])

createMockFeedbackResponse(draws, now) ==
  Obj([response |->
         Obj([acknowledgment |-> Str("Thank you for your feedback!"),
              feedback_processed |-> Bool(TRUE),
              feedback_type |-> Str("positive")]),
       metadata |->
         Obj([processing_time |-> Str(ToFixed1(10000 + draws[1] * 40) \o "s"),
              response_id |-> Str("resp-" \o IntToString(now))])])

(***************************************************************************)
(* The response normalizer.  The result Null is the code's `null`.         *)
(***************************************************************************)
\* validateSupportAgentResponse with the last `return null` replaced by the
\* generic wrapping
validateWrapsEverything(data, draws) ==
  IF ~Truthy(data) THEN Null
  ELSE IF Truthy(Get(data, "response")) /\ Truthy(Get(data, "metadata")) THEN data
  ELSE IF Truthy(Get(data, "agent_response")) THEN
    LET ar == Get(data, "agent_response")
    IN Obj([response |-> Or(Get(ar, "response"), ar),
            metadata |-> Or(Get(ar, "metadata"), EmptyObject)])
  ELSE IF TypeOf(data) = "string" THEN createMockSupportResponse(data.v, draws)
  ELSE Obj([response |-> Or(Or(Get(data, "response"), Get(data, "message")), data),
            metadata |-> Or(Get(data, "metadata"), EmptyObject)])

validateSupportAgentResponse(data, draws) ==
  IF ~Truthy(data) THEN Null
  ELSE IF Truthy(Get(data, "response")) /\ Truthy(Get(data, "metadata")) THEN data
  ELSE IF Truthy(Get(data, "agent_response")) THEN
    LET ar == Get(data, "agent_response")
    IN Obj([response |-> Or(Get(ar, "response"), ar),
            metadata |-> Or(Get(ar, "metadata"), EmptyObject)])
  ELSE IF TypeOf(data) = "string" THEN createMockSupportResponse(data.v, draws)
  ELSE IF TypeOf(data) = "object" THEN
    Obj([response |-> Or(Or(Get(data, "response"), Get(data, "message")), data),
         metadata |-> Or(Get(data, "metadata"), EmptyObject)])
  ELSE Null

(***************************************************************************)
(* The remote call.  An outcome of one fetch is a record                   *)
(*   [kind, body, llm]: kind "network" (fetch rejects), "http" (a non-2xx  *)
(*   status), "badjson" (response.json() rejects) or "ok" with the decoded *)
(*   body; llm is what parseLLMJson makes of body.assistant (a value, or   *)
(*   Throws), used only when the body has a truthy `assistant`.            *)
(***************************************************************************)
Throws == [k |-> "throws"]

Returned(v) == [threw |-> FALSE, value |-> v]
Thrown == [threw |-> TRUE, value |-> Undefined]

\* lines 170-182: `result.assistant` on null throws inside the inner try
ParsedData(result, llm) ==
  IF result.k = "null" THEN result
  ELSE IF Truthy(Get(result, "assistant")) THEN
    (IF llm = Throws THEN result ELSE llm)
  ELSE IF Truthy(Get(result, "response")) THEN Get(result, "response")
  ELSE result

\* callAgentAPI with a catch block that only rethrows
callAgentAPIRethrows(agentId, message, outcome, draws, now) ==
  IF outcome.kind = "ok" THEN
    LET parsedData == ParsedData(outcome.body, outcome.llm)
    IN IF agentId = AGENT_IDS.support
       THEN Returned(Or(validateSupportAgentResponse(parsedData, draws),
                        createMockSupportResponse(message, draws)))
       ELSE Returned(Or(parsedData, createMockFeedbackResponse(draws, now)))
  ELSE Thrown

callAgentAPI(agentId, message, outcome, draws, now) ==
  IF outcome.kind = "ok" THEN
    LET parsedData == ParsedData(outcome.body, outcome.llm)
    IN IF agentId = AGENT_IDS.support
       THEN Returned(Or(validateSupportAgentResponse(parsedData, draws),
                        createMockSupportResponse(message, draws)))
       ELSE Returned(Or(parsedData, createMockFeedbackResponse(draws, now)))
  ELSE IF agentId = AGENT_IDS.support
       THEN Returned(createMockSupportResponse(message, draws))
  ELSE IF agentId = AGENT_IDS.feedback
       THEN Returned(createMockFeedbackResponse(draws, now))
  ELSE Thrown

(***************************************************************************)
(* Messages.  An optional field that is absent holds Undefined.            *)
(***************************************************************************)
userMessage(text, now) ==
  [id |-> "msg-" \o IntToString(now),
   text |-> Str(Trim(text)),
   isUser |-> TRUE,
   timestamp |-> now,
   suggestedTopics |-> Undefined,
   confidenceScore |-> Undefined,
   queryType |-> Undefined,
   processingTime |-> Undefined,
   responseId |-> Undefined,
   feedbackSubmitted |-> Undefined]

\* aiMessage reading the canonical fields only, with no default values
aiMessageNoDefaults(response, now) ==
  LET responseBlock == Or(Get(response, "response"), response)
      metadataBlock == Or(Get(response, "metadata"), EmptyObject)
  IN [id |-> "msg-" \o IntToString(now + 1),
      text |-> Get(responseBlock, "message"),
      isUser |-> FALSE,
      timestamp |-> now,
      suggestedTopics |-> Get(responseBlock, "suggested_topics"),
      confidenceScore |-> Get(responseBlock, "confidence_score"),
      queryType |-> Get(metadataBlock, "query_type"),
      processingTime |-> Get(metadataBlock, "processing_time"),
      responseId |-> Or(Get(responseBlock, "response_id"),
                        Str("resp-" \o IntToString(now))),
      feedbackSubmitted |-> Undefined]

aiMessage(response, now) ==
  LET responseBlock == Or(Get(response, "response"), response)
      metadataBlock == Or(Get(response, "metadata"), EmptyObject)
  IN [id |-> "msg-" \o IntToString(now + 1),
      text |-> Or(Or(Or(Or(Get(responseBlock, "message"),
                           Get(responseBlock, "text")),
                        Get(response, "text")),
                     Get(response, "message")),
                  Str(DefaultText)),
      isUser |-> FALSE,
      timestamp |-> now,
      suggestedTopics |-> Or(Or(Get(responseBlock, "suggested_topics"),
                                Get(responseBlock, "suggestedTopics")),
                             Arr(<<>>)),
      confidenceScore |-> Or(Or(Or(Get(responseBlock, "confidence_score"),
                                   Get(responseBlock, "confidenceScore")),
                                Get(metadataBlock, "confidence_score")),
                             Num(80000)),
      queryType |-> Or(Or(Or(Get(metadataBlock, "query_type"),
                             Get(metadataBlock, "queryType")),
                          Get(responseBlock, "query_type")),
                       Str("general")),
      processingTime |-> Or(Or(Get(metadataBlock, "processing_time"),
                               Get(metadataBlock, "processingTime")),
                            Str("0.5s")),
      responseId |-> Or(Get(responseBlock, "response_id"),
                        Str("resp-" \o IntToString(now))),
      feedbackSubmitted |-> Undefined]

errorMessage(now) ==
  [id |-> "msg-" \o IntToString(now + 1),
   text |-> Str(ApologyText),
   isUser |-> FALSE,
   timestamp |-> now,
   suggestedTopics |-> Undefined,
   confidenceScore |-> Undefined,
   queryType |-> Undefined,
   processingTime |-> Undefined,
   responseId |-> Undefined,
   feedbackSubmitted |-> Undefined]

(***************************************************************************)
(* Sampled inputs: typed texts, reply bodies, Math.random() sequences.     *)
(***************************************************************************)
CanonicalReply ==
  Obj([response |-> Obj([message |-> Str("Your parcel is on its way."),
                         suggested_topics |-> Arr(<<Str("Returns"), Str("  ")>>),
                         confidence_score |-> Num(95000)]),
       metadata |-> Obj([query_type |-> Str("order"),
                         processing_time |-> Str("1.2s")])])

\* canonical, with a response identifier chosen by the remote service
IdentifiedReply ==
  Obj([response |-> Obj([message |-> Str("Please see our policy."),
                         suggested_topics |-> Arr(<<Str("Orders"), Str("  ")>>),
                         confidence_score |-> Num(90000),
                         response_id |-> Str("r-1")]),
       metadata |-> Obj([query_type |-> Str("return"),
                         processing_time |-> Str("0.7s")])])

\* what parseLLMJson (src/utils/jsonParser, not part of the sources) may do
LLMResults == { Throws, CanonicalReply }

FailureKinds == {"network", "http", "badjson"}

Outcomes(kinds, bodies) ==
  { [kind |-> kd, body |-> Null, llm |-> Null] : kd \in kinds }
  \cup
  UNION { { [kind |-> "ok", body |-> b, llm |-> l] :
              l \in IF b.k # "null" /\ Truthy(Get(b, "assistant"))
                    THEN LLMResults ELSE {Null} } : b \in bodies }

\* the session model: a few texts, outcomes and one random sequence
InputTexts == { "return to SHIP" }
SupportOutcomes == Outcomes({"network"}, { Obj([response |-> IdentifiedReply]) })
FeedbackOutcomes == Outcomes({"network"}, { Obj([response |-> Str("Thanks")]) })
RandomDraws == { <<0, 0, 0, 500, 999>> }

\* the single-exchange model: many texts, bodies and random sequences
Queries ==
  { "", "  ", "return to SHIP", " ORDER ship return ", "Reorder", "Returns",
    "Tell me about Orders", "Tell me about Shipping", "Tell me about Returns",
    "Account", "shIPping of my oRDEr", "hello" }
AllBodies ==
  { CanonicalReply,
    Obj([response |-> CanonicalReply]),
    Obj([response |-> IdentifiedReply]),
    Obj([agent_response |-> CanonicalReply]),
    Obj([agent_response |-> Str("Hi")]),
    Obj([message |-> Str("Hello")]),
    Obj([response |-> Str("Your order is late.")]),
    Obj([assistant |-> Str("{\"response\": {}, \"metadata\": {}}")]),
    Arr(<<Str("a")>>),
    Str("We ship worldwide."),
    Str(""),
    Num(500000),
    Num(0),
    Bool(TRUE),
    Bool(FALSE),
    Null }
AllDraws ==
  { <<0, 0, 0, 0, 0>>, <<0, 500, 999, 500, 999>>, <<999, 167, 334, 999, 0>>,
    <<166, 833, 666, 1, 33>> }

(***************************************************************************)
(* State.                                                                  *)
(*   messages, inputText, isTyping : the component's useState cells        *)
(*   clock         : the reading of Date.now()                             *)
(*   supportCalls  : the suspended handleSendMessage activations, each     *)
(*                   with the arguments of its callAgentAPI call           *)
(*   feedbackCalls : the suspended handleFeedback activations              *)
(*   fbIssued      : history: the position of the message clicked, for     *)
(*                   each feedback call issued                             *)
(*   last          : history: the last completed remote call               *)
(***************************************************************************)
NoOutcome == [kind |-> "none", body |-> Null, llm |-> Null]

Init ==
  /\ messages = <<>>
  /\ inputText = ""
  /\ isTyping = FALSE
  /\ clock = 0
  /\ supportCalls = <<>>
  /\ feedbackCalls = <<>>
  /\ fbIssued = <<>>
  /\ last = [ev |-> "none", query |-> "", outcome |-> NoOutcome, idx |-> 0]

Remove(seq, i) == SubSeq(seq, 1, i - 1) \o SubSeq(seq, i + 1, Len(seq))

UserMessages == { i \in 1..Len(messages) : messages[i].isUser }

\* Bounds the number of exchanges of a run.
SendsLeft == Cardinality(UserMessages) < MaxSends

(***************************************************************************)
(* handleSendMessage up to its `await`: lines 207-223.                     *)
(***************************************************************************)
\* handleSendMessage without the guard of line 208
handleSendMessageAnyText(text) ==
  /\ messages' = Append(messages, userMessage(text, clock))
  /\ inputText' = ""
  /\ isTyping' = TRUE
  /\ supportCalls' = Append(supportCalls,
                            [agentId |-> AGENT_IDS.support,
                             message |-> Trim(text)])
  /\ UNCHANGED <<clock, feedbackCalls, fbIssued, last>>

handleSendMessage(text) ==
  IF Trim(text) = "" THEN UNCHANGED vars
  ELSE /\ messages' = Append(messages, userMessage(text, clock))
       /\ inputText' = ""
       /\ isTyping' = TRUE
       /\ supportCalls' = Append(supportCalls,
                                 [agentId |-> AGENT_IDS.support,
                                  message |-> Trim(text)])
       /\ UNCHANGED <<clock, feedbackCalls, fbIssued, last>>

\* onChange of the input, which is disabled while isTyping
ChangeInput(t) ==
  /\ ~isTyping
  /\ inputText' = t
  /\ UNCHANGED <<messages, isTyping, clock, supportCalls, feedbackCalls,
                 fbIssued, last>>

\* the form's submit; its button is disabled while isTyping or on blank input
handleSubmit ==
  /\ ~isTyping
  /\ Trim(inputText) # ""
  /\ SendsLeft
  /\ handleSendMessage(inputText)

handleTopicClick(topic) ==
  /\ SendsLeft
  /\ handleSendMessage("Tell me about " \o topic)

\* a click on the j-th suggested topic of the i-th message
SuggestedTopicClick(i, j) ==
  /\ SendsLeft
  /\ ~messages[i].isUser
  /\ messages[i].suggestedTopics.k = "array"
  /\ j \in 1..Len(messages[i].suggestedTopics.v)
  /\ messages[i].suggestedTopics.v[j].k = "string"
  /\ handleSendMessage(messages[i].suggestedTopics.v[j].v)

(***************************************************************************)
(* handleSendMessage from the completion of its call on: lines 223-263.    *)
(***************************************************************************)
\* SupportDone putting the reply in the place of the last message
SupportDoneInPlace(i, outcome, draws) ==
  LET call == supportCalls[i]
      r == callAgentAPI(call.agentId, call.message, outcome, draws, clock)
  IN /\ messages' = [messages EXCEPT ![Len(messages)] =
                       IF r.threw THEN errorMessage(clock)
                       ELSE aiMessage(r.value, clock)]
     /\ isTyping' = FALSE
     /\ supportCalls' = Remove(supportCalls, i)
     /\ last' = [ev |-> "support", query |-> call.message,
                 outcome |-> outcome, idx |-> Len(messages)]
     /\ UNCHANGED <<inputText, clock, feedbackCalls, fbIssued>>

\* SupportDone without the `finally` of line 262
SupportDoneNoFinally(i, outcome, draws) ==
  LET call == supportCalls[i]
      r == callAgentAPI(call.agentId, call.message, outcome, draws, clock)
  IN /\ messages' = Append(messages,
                           IF r.threw THEN errorMessage(clock)
                           ELSE aiMessage(r.value, clock))
     /\ supportCalls' = Remove(supportCalls, i)
     /\ last' = [ev |-> "support", query |-> call.message,
                 outcome |-> outcome, idx |-> Len(messages) + 1]
     /\ UNCHANGED <<inputText, isTyping, clock, feedbackCalls, fbIssued>>

SupportDone(i, outcome, draws) ==
  LET call == supportCalls[i]
      r == callAgentAPI(call.agentId, call.message, outcome, draws, clock)
  IN /\ messages' = Append(messages,
                           IF r.threw THEN errorMessage(clock)
                           ELSE aiMessage(r.value, clock))
     /\ isTyping' = FALSE
     /\ supportCalls' = Remove(supportCalls, i)
     /\ last' = [ev |-> "support", query |-> call.message,
                 outcome |-> outcome, idx |-> Len(messages) + 1]
     /\ UNCHANGED <<inputText, clock, feedbackCalls, fbIssued>>

(***************************************************************************)
(* handleFeedback: lines 266-284.                                          *)
(***************************************************************************)
\* the feedback buttons of the i-th message are rendered (line 420)
FeedbackOffered(i) ==
  /\ ~messages[i].isUser
  /\ Truthy(messages[i].responseId)
  /\ ~Truthy(messages[i].feedbackSubmitted)

\* messages.find(m => m.id === messageId): its position, 0 when none
FindMessage(messageId) ==
  IF \E j \in 1..Len(messages) : messages[j].id = messageId
  THEN CHOOSE j \in 1..Len(messages) :
         /\ messages[j].id = messageId
         /\ \A h \in 1..(j - 1) : messages[h].id # messageId
  ELSE 0

\* up to the `await`; i is the position of the message clicked.  The record
\* of the last handler run, `last`, is left to the caller.
handleFeedback(messageId, feedbackType, i) ==
  LET m == FindMessage(messageId)
  IN IF m = 0 \/ ~Truthy(messages[m].responseId)
     THEN UNCHANGED <<messages, inputText, isTyping, clock, supportCalls,
                      feedbackCalls, fbIssued>>
     ELSE /\ feedbackCalls' =
               Append(feedbackCalls,
                      [agentId |-> AGENT_IDS.feedback,
                       message |-> "Feedback for response "
                                     \o messages[m].responseId.v
                                     \o ": " \o feedbackType,
                       messageId |-> messageId])
          /\ fbIssued' = Append(fbIssued, i)
          /\ UNCHANGED <<messages, inputText, isTyping, clock, supportCalls>>

FeedbackClick(i, feedbackType) ==
  /\ Len(fbIssued) < MaxFeedback
  /\ FeedbackOffered(i)
  /\ handleFeedback(messages[i].id, feedbackType, i)
  /\ UNCHANGED last

\* from the completion of the call on
FeedbackDone(i, outcome, draws) ==
  LET call == feedbackCalls[i]
      r == callAgentAPI(call.agentId, call.message, outcome, draws, clock)
  IN /\ messages' =
          IF r.threw THEN messages
          ELSE [j \in 1..Len(messages) |->
                  IF messages[j].id = call.messageId
                  THEN [messages[j] EXCEPT !.feedbackSubmitted = Bool(TRUE)]
                  ELSE messages[j]]
     /\ feedbackCalls' = Remove(feedbackCalls, i)
     /\ last' = [ev |-> "feedback", query |-> call.messageId,
                 outcome |-> outcome, idx |-> 0]
     /\ UNCHANGED <<inputText, isTyping, clock, supportCalls, fbIssued>>

\* time passes
Tick ==
  /\ clock < MaxClock
  /\ clock' = clock + 1
  /\ UNCHANGED <<messages, inputText, isTyping, supportCalls, feedbackCalls,
                 fbIssued, last>>

Next ==
  \/ \E t \in InputTexts : ChangeInput(t)
  \/ handleSubmit
  \/ \E n \in 1..Len(HELP_TOPICS) : handleTopicClick(HELP_TOPICS[n])
  \/ \E i \in 1..Len(messages) : \E j \in 1..3 : SuggestedTopicClick(i, j)
  \/ \E i \in 1..Len(supportCalls) : \E o \in SupportOutcomes :
       \E d \in RandomDraws : SupportDone(i, o, d)
  \/ \E i \in 1..Len(messages) : \E ft \in {"positive", "negative"} :
       FeedbackClick(i, ft)
  \/ \E i \in 1..Len(feedbackCalls) : \E o \in FeedbackOutcomes :
       \E d \in RandomDraws : FeedbackDone(i, o, d)
  \/ Tick

Spec == Init /\ [][Next]_vars

\* A pending support call settles: fetch resolves or rejects and the handler
\* awaiting it resumes, which takes the call out of supportCalls.  Of the
\* steps of the model only those of SupportDone are such steps.
SupportSettles ==
  \E i \in 1..Len(supportCalls) : supportCalls' = Remove(supportCalls, i)

\* the sends and their completions, without the feedback controls
NextSends ==
  \/ \E t \in InputTexts : ChangeInput(t)
  \/ handleSubmit
  \/ \E n \in 1..Len(HELP_TOPICS) : handleTopicClick(HELP_TOPICS[n])
  \/ \E i \in 1..Len(messages) : \E j \in 1..3 : SuggestedTopicClick(i, j)
  \/ \E i \in 1..Len(supportCalls) : \E o \in SupportOutcomes :
       \E d \in RandomDraws : SupportDone(i, o, d)
  \/ Tick

SpecSends == Init /\ [][NextSends]_vars /\ WF_supportCalls(SupportSettles)

(***************************************************************************)
(* The single-exchange model: handleSendMessage is called once, with any   *)
(* of the sampled texts, and its call ends in any of the sampled ways.     *)
(***************************************************************************)
NextExchange ==
  \/ \E q \in Queries : messages = <<>> /\ handleSendMessage(q)
  \/ \E o \in Outcomes(FailureKinds, AllBodies) : \E d \in AllDraws :
       supportCalls # <<>> /\ SupportDone(1, o, d)
  \/ Tick

SpecExchange == Init /\ [][NextExchange]_vars

(***************************************************************************)
(* The handler model: handleFeedback is called with any identifier, those  *)
(* of no message and of messages without a responseId included, as the     *)
(* function itself allows (the buttons of line 420 never do).              *)
(***************************************************************************)
\* identifiers handed to handleFeedback: of listed messages, and of none
FeedbackIds ==
  { messages[j].id : j \in 1..Len(messages) } \cup {"msg-none"}

\* one call of handleFeedback(messageId, feedbackType), recorded in `last`
CallHandleFeedback(messageId, feedbackType) ==
  /\ Len(fbIssued) < MaxFeedback
  /\ handleFeedback(messageId, feedbackType, FindMessage(messageId))
  /\ last' = [ev |-> "handleFeedback", query |-> messageId,
              outcome |-> NoOutcome, idx |-> Len(feedbackCalls)]

NextHandlers ==
  \/ \E n \in 1..Len(HELP_TOPICS) : handleTopicClick(HELP_TOPICS[n])
  \/ \E i \in 1..Len(supportCalls) : \E o \in SupportOutcomes :
       \E d \in RandomDraws : SupportDone(i, o, d)
  \/ \E id \in FeedbackIds : \E ft \in {"positive", "negative"} :
       CallHandleFeedback(id, ft)
  \/ \E i \in 1..Len(feedbackCalls) : \E o \in FeedbackOutcomes :
       \E d \in RandomDraws : FeedbackDone(i, o, d)
  \/ Tick

SpecHandlers == Init /\ [][NextHandlers]_vars

(***************************************************************************)
(* The synthesis model: the two reply synthesizers applied to sampled      *)
(* queries and Math.random() results; the reply is kept in last.outcome.   *)
(***************************************************************************)
\* results of Math.random(), in thousandths: both ends and points between
RandomSamples == {0, 1, 33, 34, 249, 250, 500, 749, 966, 999}

SynthesisDraws == { <<b, a, b, a, b>> : a, b \in RandomSamples }

SynthesisQueries == {"where is my order", "Tell me about Shipping", "hello"}

Synthesized(ev, query, reply) ==
  /\ last' = [ev |-> ev, query |-> query,
              outcome |-> [kind |-> "mock", body |-> reply, llm |-> Null],
              idx |-> 0]
  /\ UNCHANGED <<messages, inputText, isTyping, clock, supportCalls,
                 feedbackCalls, fbIssued>>

SynthesizeSupport(query, draws) ==
  Synthesized("mockSupport", query, createMockSupportResponse(query, draws))

SynthesizeFeedback(draws) ==
  Synthesized("mockFeedback", "", createMockFeedbackResponse(draws, clock))

NextSynthesis ==
  \/ \E q \in SynthesisQueries : \E d \in SynthesisDraws :
       SynthesizeSupport(q, d)
  \/ \E d \in SynthesisDraws : SynthesizeFeedback(d)
  \/ Tick

SpecSynthesis == Init /\ [][NextSynthesis]_vars

(***************************************************************************)
(* Properties.                                                             *)
(***************************************************************************)
AssistantMessages == { i \in 1..Len(messages) : ~messages[i].isUser }

\* C1: at most one support call started by handleSendMessage is in flight at
\* any time, whatever the interleaving of sends and completions.
C1_AtMostOneExchangeInFlight == Len(supportCalls) <= 1

\* C2: the pending flag never clears while a support call is in flight:
\* isTyping = false implies that no support call awaits its completion.
C2_IdleImpliesNoCallInFlight == (~isTyping) => supportCalls = <<>>

\* the canonical shape {response: {message, suggested_topics,
\* confidence_score}, metadata: {query_type, processing_time}}
IsCanonical(b) ==
  /\ b.k = "object"
  /\ DOMAIN b.v = {"response", "metadata"}
  /\ b.v.response.k = "object"
  /\ DOMAIN b.v.response.v = {"message", "suggested_topics", "confidence_score"}
  /\ b.v.metadata.k = "object"
  /\ DOMAIN b.v.metadata.v = {"query_type", "processing_time"}

\* C3: a 2xx reply whose body already has the canonical shape reaches the
\* appended assistant message unchanged: same message text, suggested
\* topics, confidence score, query type and processing time.
C3_CanonicalRoundTrip ==
  (last.ev = "support" /\ last.outcome.kind = "ok" /\ IsCanonical(last.outcome.body))
  => LET m == messages[last.idx]
         b == last.outcome.body.v
     IN /\ m.text = b.response.v.message
        /\ m.suggestedTopics = b.response.v.suggested_topics
        /\ m.confidenceScore = b.response.v.confidence_score
        /\ m.queryType = b.metadata.v.query_type
        /\ m.processingTime = b.metadata.v.processing_time

\* C4: for every message at most one call to the feedback endpoint is ever
\* issued, over any sequence of feedback clicks and call completions.
C4_FeedbackAtMostOncePerMessage ==
  \A i \in 1..Len(messages) :
    Cardinality({ n \in 1..Len(fbIssued) : fbIssued[n] = i }) <= 1

\* C5: when the remote call issued by handleFeedback fails, the message list
\* after the handler finishes is identical to the list before it.
C5_FailedFeedbackLeavesMessages ==
  [][\A i \in 1..Len(feedbackCalls) : \A o \in FeedbackOutcomes :
       \A d \in RandomDraws :
         (o.kind # "ok" /\ FeedbackDone(i, o, d)) => messages' = messages]_vars

\* C6: no two assistant messages of the list have the same responseId.
C6_ResponseIdsUnique ==
  \A i, j \in AssistantMessages :
    (i # j /\ Truthy(messages[i].responseId) /\ Truthy(messages[j].responseId))
    => messages[i].responseId # messages[j].responseId

\* C7 as stated: when the support call fails (transport failure, non-2xx
\* status, malformed JSON) the assistant message appended for the exchange
\* is the fixed apology.
C7_FailureAppendsApology ==
  (last.ev = "support" /\ last.outcome.kind \in FailureKinds)
  => messages[last.idx].text = Str(ApologyText)

\* C7 as amended: every completed exchange has appended exactly one assistant
\* message, which is never the apology; when the call failed it carries the
\* message template synthesized for the query and a response identifier.
C7_FailureAppendsSynthesizedReply ==
  last.ev = "support"
  => /\ Len(messages) = 2
     /\ last.idx = 2
     /\ messages[1].isUser
     /\ ~messages[2].isUser
     /\ messages[2].text # Str(ApologyText)
     /\ Truthy(messages[2].responseId)
     /\ last.outcome.kind \in FailureKinds
        => messages[2].text = Str(MockMessage(KeywordFlags(last.query)))

\* C7, its case: a call whose body failed to parse has ended in the
\* synthesized shipping reply.
C7_Witness ==
  /\ last.ev = "support"
  /\ last.outcome.kind = "badjson"
  /\ Len(messages) = 2
  /\ messages[2].text = Str(ShippingMessage)

\* the failure kinds of a support call: transport failure or non-2xx status,
\* a body that fails to parse, a decoded body that is neither an object nor
\* a string
IsFailedCall(o) ==
  \/ o.kind \in FailureKinds
  \/ o.kind = "ok" /\ o.body.k \in {"number", "boolean", "null"}

\* C8: each failure kind of a support call ends, without a second call, in
\* the assistant message built from the reply that createMockSupportResponse
\* synthesizes from the original query text.
C8_FailuresFallBackIdentically ==
  (last.ev = "support" /\ IsFailedCall(last.outcome))
  => /\ supportCalls = <<>>
     /\ Len(messages) = 2
     /\ \E d \in AllDraws :
          messages[2] =
            aiMessage(createMockSupportResponse(messages[1].text.v, d),
                      messages[2].timestamp)

\* C8, its case: a call answered with a bare number has ended in the reply
\* synthesized for the query.
C8_Witness ==
  /\ last.ev = "support"
  /\ last.outcome.kind = "ok"
  /\ last.outcome.body = Num(500000)
  /\ last.query = "Tell me about Returns"
  /\ messages[2].text = Str(ReturnMessage)
  /\ messages[2].queryType = Str("return")

\* C9: after a transport failure the query type and the message template of
\* the appended message follow the first keyword found in the query, in any
\* letter case, in the order "order", "ship", "return"; "general" otherwise.
C9_KeywordClassification ==
  (last.ev = "support" /\ last.outcome.kind \in {"network", "http"})
  => LET q == ToLowerCase(last.query)
         m == messages[last.idx]
     IN /\ Includes(q, "order")
           => (m.queryType = Str("order") /\ m.text = Str(OrderMessage))
        /\ (~Includes(q, "order") /\ Includes(q, "ship"))
           => (m.queryType = Str("shipping") /\ m.text = Str(ShippingMessage))
        /\ (~Includes(q, "order") /\ ~Includes(q, "ship") /\ Includes(q, "return"))
           => (m.queryType = Str("return") /\ m.text = Str(ReturnMessage))
        /\ (~Includes(q, "order") /\ ~Includes(q, "ship") /\ ~Includes(q, "return"))
           => (m.queryType = Str("general") /\ m.text = Str(GeneralMessage))

\* C9, its case: a query with all three keywords, "order" in upper case,
\* failed in transport and was labelled "order".
C9_Witness ==
  /\ last.ev = "support"
  /\ last.outcome.kind = "network"
  /\ last.query = "ORDER ship return"
  /\ messages[last.idx].queryType = Str("order")

\* C10: a successful feedback submission sets the flag of its message and of
\* no other message, and a flag that is set is never reset (so the feedback
\* controls of that message are not offered again).
C10_FeedbackMarksOnlyItsMessage ==
  [][/\ \A j \in 1..Len(messages) :
          Truthy(messages[j].feedbackSubmitted)
          => (Truthy(messages'[j].feedbackSubmitted) /\ ~FeedbackOffered(j)')
     /\ \A i \in 1..Len(feedbackCalls) : \A o \in FeedbackOutcomes :
          \A d \in RandomDraws :
            (o.kind = "ok" /\ FeedbackDone(i, o, d))
            => LET t == FindMessage(feedbackCalls[i].messageId)
               IN /\ Truthy(messages'[t].feedbackSubmitted)
                  /\ \A j \in 1..Len(messages) :
                       j # t => messages'[j].feedbackSubmitted
                                  = messages[j].feedbackSubmitted]_vars

\* handleFeedback(messageId) returns at once: find() yields no message, or
\* one without a responseId (lines 267-268)
NothingToRate(messageId) ==
  \/ FindMessage(messageId) = 0
  \/ ~Truthy(messages[FindMessage(messageId)].responseId)

\* the early return of handleFeedback changes no list and issues no call
FeedbackEarlyReturn ==
  [][\A id \in FeedbackIds : \A ft \in {"positive", "negative"} :
       (NothingToRate(id) /\ CallHandleFeedback(id, ft))
         => /\ messages' = messages
            /\ feedbackCalls' = feedbackCalls
            /\ fbIssued' = fbIssued]_vars

\* messageId is the identifier of no message, or of a message that has no
\* responseId
NoResponseIdFor(messageId) ==
  \/ \A j \in 1..Len(messages) : messages[j].id # messageId
  \/ \E j \in 1..Len(messages) :
       messages[j].id = messageId /\ ~Truthy(messages[j].responseId)

\* C11: handleFeedback called with the identifier of no message, or of a
\* message without a responseId (every user message), leaves the message
\* list as it is and issues no feedback call.
C11_FeedbackWithoutTargetIsNoOp ==
  [][\A id \in FeedbackIds : \A ft \in {"positive", "negative"} :
       (NoResponseIdFor(id) /\ CallHandleFeedback(id, ft))
         => /\ messages' = messages
            /\ feedbackCalls' = feedbackCalls
            /\ fbIssued' = fbIssued]_vars

IsDigit(c) == \E n \in 1..Len(Digits) : CharAt(Digits, n) = c

DigitValue(c) == (CHOOSE n \in 1..Len(Digits) : CharAt(Digits, n) = c) - 1

\* x is a label "<d>.<d>s" whose number, in tenths, lies in lo..hi
TimeLabelWithin(x, lo, hi) ==
  /\ x.k = "string"
  /\ Len(x.v) = 4
  /\ IsDigit(CharAt(x.v, 1)) /\ CharAt(x.v, 2) = "."
  /\ IsDigit(CharAt(x.v, 3)) /\ CharAt(x.v, 4) = "s"
  /\ LET tenths == 10 * DigitValue(CharAt(x.v, 1)) + DigitValue(CharAt(x.v, 3))
     IN lo <= tenths /\ tenths <= hi

\* x is a number in [0.8, 0.99]
ConfidenceWithin(x) == x.k = "number" /\ 80000 <= x.v /\ x.v <= 99000

SynthesizedConfidence == Get(Get(last.outcome.body, "response"), "confidence_score")
SynthesizedTime == Get(Get(last.outcome.body, "metadata"), "processing_time")

\* C12 as claimed: every synthesized reply, of either endpoint, has a
\* confidence score in [0.8, 0.99] and a processing-time label <number>s
\* with the number in [0.5, 2.0] (support) or [0.1, 0.5] (feedback).
C12_EverySynthesizedReplyInRange ==
  /\ last.ev = "mockSupport" =>
       ConfidenceWithin(SynthesizedConfidence)
         /\ TimeLabelWithin(SynthesizedTime, 5, 20)
  /\ last.ev = "mockFeedback" =>
       ConfidenceWithin(SynthesizedConfidence)
         /\ TimeLabelWithin(SynthesizedTime, 1, 5)

\* C12, amended: a synthesized support reply has a confidence score in
\* [0.8, 0.99] and a processing-time label <number>s with the number in
\* [0.5, 2.0]; a synthesized feedback reply has a label with the number in
\* [0.1, 0.5] and carries no confidence score.
C12_SynthesizedRangesByEndpoint ==
  /\ last.ev = "mockSupport" =>
       ConfidenceWithin(SynthesizedConfidence)
         /\ TimeLabelWithin(SynthesizedTime, 5, 20)
  /\ last.ev = "mockFeedback" =>
       SynthesizedConfidence = Undefined
         /\ TimeLabelWithin(SynthesizedTime, 1, 5)

\* a feedback reply synthesized from the largest Math.random() result
C12_Witness ==
  /\ last.ev = "mockFeedback"
  /\ SynthesizedTime = Str("0.5s")
  /\ SynthesizedConfidence = Undefined

\* C13: the message list is append-only: a step leaves it as it is, appends
\* one message at its end, or changes nothing but feedbackSubmitted flags
\* of listed messages, from unset to true; no message is removed or moved,
\* and no other field of a listed message changes.
C13_MessagesAppendOnly ==
  [][\/ messages' = messages
     \/ /\ Len(messages') = Len(messages) + 1
        /\ SubSeq(messages', 1, Len(messages)) = messages
     \/ /\ Len(messages') = Len(messages)
        /\ \A j \in 1..Len(messages) :
             \/ messages'[j] = messages[j]
             \/ /\ messages[j].feedbackSubmitted = Undefined
                /\ messages'[j] =
                     [messages[j] EXCEPT !.feedbackSubmitted = Bool(TRUE)]]_vars

\* two exchanges are listed and a completed feedback call has set a flag
C13_Witness ==
  /\ Len(messages) = 4
  /\ last.ev = "feedback" /\ last.outcome.kind = "ok"
  /\ \E j \in 1..Len(messages) : messages[j].feedbackSubmitted = Bool(TRUE)

\* C14: when every remote call settles, every accepted send, which sets
\* isTyping, is eventually followed by a state in which isTyping is false.
C14_SendEventuallyIdle == isTyping ~> ~isTyping

\* a send was accepted, its call has settled, and the session is idle
C14_Witness ==
  /\ ~isTyping
  /\ supportCalls = <<>>
  /\ last.ev = "support"
  /\ Len(messages) = 2

\* x is neither undefined nor null
Defined(x) == x # Undefined /\ x # Null

\* C15: whatever the outcome of a support call (any decoded body, or a
\* failure), the assistant message appended for it has a defined text,
\* suggested-topic list, confidence score, query type and processing time.
C15_AssistantMessageFullyPopulated ==
  last.ev = "support" =>
    LET m == messages[last.idx]
    IN /\ ~m.isUser
       /\ Defined(m.text)
       /\ Defined(m.suggestedTopics)
       /\ Defined(m.confidenceScore)
       /\ Defined(m.queryType)
       /\ Defined(m.processingTime)

\* a decoded body without any of the fields: every default value is used
C15_Witness ==
  /\ last.ev = "support" /\ last.outcome.kind = "ok"
  /\ messages[last.idx].text = Str(DefaultText)
  /\ messages[last.idx].suggestedTopics = Arr(<<>>)
  /\ messages[last.idx].confidenceScore = Num(80000)
  /\ messages[last.idx].queryType = Str("general")
  /\ messages[last.idx].processingTime = Str("0.5s")

\* the value decoded from the last, successful call (lines 170-182)
DecodedValue == ParsedData(last.outcome.body, last.outcome.llm)

\* C16: when the value decoded from a successful support call is a non-empty
\* plain string, the normalizer treats it as the bare message: the text of
\* the assistant message appended for the call is that string.
C16_PlainStringIsTheMessage ==
  (/\ last.ev = "support" /\ last.outcome.kind = "ok"
   /\ DecodedValue.k = "string" /\ DecodedValue.v # "")
    => messages[last.idx].text = DecodedValue

\* the texts the controls on screen can hand to handleSendMessage
SendableTexts ==
  {inputText}
  \cup { "Tell me about " \o HELP_TOPICS[n] : n \in 1..Len(HELP_TOPICS) }
  \cup UNION { { messages[i].suggestedTopics.v[j].v :
                   j \in { h \in 1..Len(messages[i].suggestedTopics.v) :
                             messages[i].suggestedTopics.v[h].k = "string" } } :
               i \in { h \in 1..Len(messages) :
                         messages[h].suggestedTopics.k = "array" } }

\* C17: a send of empty or whitespace-only text changes nothing (no message,
\* no call, isTyping and inputText untouched); every other send appends
\* exactly one user message at once, and exactly one assistant message is
\* appended when its call completes: in every reachable state the number of
\* assistant messages is the number of user messages minus the number of
\* support calls in flight, feedback completions interleaved or not.
C17_OneReplyPerAcceptedSend ==
  /\ [](Cardinality(AssistantMessages)
          = Cardinality(UserMessages) - Len(supportCalls))
  /\ [][\A t \in SendableTexts :
          handleSendMessage(t) =>
            IF Trim(t) = ""
            THEN UNCHANGED <<messages, supportCalls, isTyping, inputText>>
            ELSE /\ Len(messages') = Len(messages) + 1
                 /\ SubSeq(messages', 1, Len(messages)) = messages
                 /\ messages'[Len(messages')].isUser
                 /\ Len(supportCalls') = Len(supportCalls) + 1]_vars

\* two sends, one answered and one in flight, a blank suggested topic on
\* screen, and a feedback call that completed in between
C17_Witness ==
  /\ Cardinality(UserMessages) = 2
  /\ Cardinality(AssistantMessages) = 1
  /\ Len(supportCalls) = 1
  /\ last.ev = "feedback"
  /\ \E t \in SendableTexts : t # "" /\ Trim(t) = ""

====
